---- MODULE Spec2Model ----
(***************************************************************************)
(* The "pull" command of skeema (src/pull.go): the recursive walk over a   *)
(* directory tree that brings the *.sql files of every leaf (schema)       *)
(* directory in line with the live schema, and creates directories for     *)
(* schemas that exist only on the instance.                                *)
(*                                                                         *)
(* pull() is cut into one action per external call it makes (directory     *)
(* listing, temporary-schema population, one diff entry, ...), so that the *)
(* intermediate states the temporal properties talk about are visible.     *)
(* The collaborators whose code is outside src/pull.go (Dir, SQLFile,      *)
(* Target, the tengo diff engine, PopulateSchemaDir) are modelled from     *)
(* their description in spec.md; every call of theirs that returns an      *)
(* error may fail, chosen nondeterministically.                            *)
(***************************************************************************)
EXTENDS Naturals, Sequences, FiniteSets

VARIABLES
    entries,    \* directory -> sequence of canonical paths of its entries
    exists,     \* set of directories present on the filesystem
    files,      \* leaf directory -> (table -> text of <table>.sql, or NoFile)
    live,       \* schema -> [present, tables: table -> number of columns, 0 = no table]
    mode,       \* which kinds of entry the diff engine emits
    seen,       \* the map handed down by PullCommand (its keys)
    stack,      \* the call stack of pull(): one frame per active call
    ret,        \* <<v>>: value returned by the call that just ended; else <<>>
    pc,         \* "idle", "running", "done" (returned) or "panicked"
    result,     \* <<v>>: exit status of the top-level call (2 after a panic)
    run,        \* "first" or "second" top-level invocation
    temp,       \* the temporary schema on the instance, as live[s]
    dropTried,  \* DropTemporarySchema was called since the last population
    visits,     \* directory -> number of pull() calls on it in this run
    ops,        \* filesystem mutations of this run, in order
    populated,  \* schemas PopulateSchemaDir was called for in this run, in order
    failed,     \* an external call reported an error in this run
    unread,     \* subdirectories whose "schema" value discovery could not read
    err         \* <<e>>: the value pull panicked with; else <<>>

vars == <<entries, exists, files, live, mode, seen, stack, ret, pc, result,
          run, temp, dropTried, visits, ops, populated, failed, unread, err>>

----------------------------------------------------------------------------
(* Bounds of the model. *)

\* A table has between 1 and MaxCols columns; its structure is that number.
MaxCols == 2

\* PopulateSchemaDir returns a value in 0..MaxRet.
MaxRet == 2

\* pull() frames the model lets the stack hold (never binding on the code).
MaxDepth == 5

----------------------------------------------------------------------------
(* The directory universe. *)

Root == "/"
Group == "/g"
Inst == "/i"
Dirs == {"/", "/g", "/i", "/i/a", "/i/b", "/i/c", "/i/d"}
LeafDirs == {"/i/a", "/i/b", "/i/c", "/i/d"}
InstanceDirs == {"/i"}
Schemas == {"a", "b", "c", "d"}
SchemaSeq == <<"a", "b", "c", "d">>
Tables == {"t1", "t2"}
TableSeq == <<"t1", "t2">>

NoFile == <<>>
NoTables == [t \in Tables |-> 0]
NoSchema == [present |-> FALSE, tables |-> NoTables]
SchemaWith(tables) == [present |-> TRUE, tables |-> tables]
None == "none"

\* The "schema" value of a leaf directory's option file.
SchemaOf(d) ==
    CASE d = "/i/a" -> "a"
      [] d = "/i/b" -> "b"
      [] d = "/i/c" -> "c"
      [] d = "/i/d" -> "d"

\* The subdirectory PopulateSchemaDir creates for a schema.
DirOfSchema(s) ==
    CASE s = "a" -> "/i/a"
      [] s = "b" -> "/i/b"
      [] s = "c" -> "/i/c"
      [] s = "d" -> "/i/d"

IsLeaf(d) == d \in LeafDirs

\* Dir.Subdirs(): the entries of d that exist, each under its canonical path.
Subdirs(d) == SelectSeq(entries[d], LAMBDA e : e \in exists)

IsInstanceWithLeafSubdirs(d, subdirs) ==
    /\ d \in InstanceDirs
    /\ \A i \in 1..Len(subdirs) : IsLeaf(subdirs[i])

----------------------------------------------------------------------------
(* Table definitions as text. *)

Cols(n) == [i \in 1..n |-> "col"]

\* SHOW CREATE TABLE of a table of the schema with these tables.
ShowCreateTable(tables, table) ==
    <<"CREATE TABLE", table>> \o Cols(tables[table])

\* A hand-written definition of the same structure in another layout.
HandWritten(table, n) == <<"create table", table>> \o Cols(n) \o <<";">>

\* The structure a definition text creates when it is executed.
Parse(text) == Len(SelectSeq(text, LAMBDA w : w = "col"))

\* SQLFile.Write reports the number of bytes written.
WrittenLength(contents) == Len(contents)

\* The schema PopulateTemporarySchema builds from the *.sql files of a leaf.
LoadFiles(d) == [t \in Tables |-> Parse(files[d][t])]

----------------------------------------------------------------------------
(* The diff engine: tengo.NewSchemaDiff(from, to). *)

IsCreated(from, to, t) == from[t] = 0 /\ to[t] > 0

\* The tables a dropped table x may have been renamed to.
RenameTargets(from, to, x) ==
    {y \in Tables : IsCreated(from, to, y) /\ to[y] = from[x]}

IsRenamed(from, to, x) ==
    /\ mode = "renames"
    /\ from[x] > 0 /\ to[x] = 0
    /\ RenameTargets(from, to, x) # {}

IsRenameTarget(from, to, y) ==
    \E x \in Tables : IsRenamed(from, to, x) /\ y \in RenameTargets(from, to, x)

KindOf(from, to, t) ==
    IF to[t] = 0
    THEN (IF IsRenamed(from, to, t) THEN "Rename" ELSE "Drop")
    ELSE (IF mode = "extended" THEN "Other" ELSE "Alter")

\* Created tables first, then the tables of "from" that were dropped or changed.
NewSchemaDiff(from, to) ==
    LET created == SelectSeq(TableSeq, LAMBDA t :
                       IsCreated(from, to, t) /\ ~IsRenameTarget(from, to, t))
        changed == SelectSeq(TableSeq, LAMBDA t :
                       from[t] > 0 /\ to[t] # from[t])
    IN  [i \in 1..Len(created) |-> [kind |-> "Create", table |-> created[i]]]
        \o [i \in 1..Len(changed) |->
               [kind |-> KindOf(from, to, changed[i]), table |-> changed[i]]]

----------------------------------------------------------------------------
(* Frames of pull() and the ways a call ends. *)

Frame(d) ==
    [dir |-> d, pc |-> "enter", subdirs |-> <<>>, n |-> 1,
     missing |-> <<>>, j |-> 1, diff |-> <<>>, k |-> 1]

Range(q) == {q[i] : i \in 1..Len(q)}

Top == stack[Len(stack)]
SetTop(f) == [stack EXCEPT ![Len(stack)] = f]

\* "return v": the caller, if any, finds v in ret.
Return(v) ==
    IF Len(stack) = 1
    THEN /\ stack' = <<>>
         /\ pc' = "done"
         /\ result' = <<v>>
         /\ ret' = <<>>
    ELSE /\ stack' = SubSeq(stack, 1, Len(stack) - 1)
         /\ ret' = <<v>>
         /\ UNCHANGED <<pc, result>>

\* An external call reported an error and pull returns v.
Fail(v) == Return(v) /\ failed' = TRUE /\ UNCHANGED err

\* pull goes on, or returns, without an error of its own.
NoError == UNCHANGED <<failed, err>>

\* panic(e): nothing recovers it, the process ends with exit status 2.
Panic(e) ==
    /\ stack' = <<>>
    /\ pc' = "panicked"
    /\ result' = <<2>>
    /\ ret' = <<>>
    /\ err' = <<e>>
    /\ UNCHANGED failed

Mutation(o, kind, d, t, text, n) ==
    [op |-> o, kind |-> kind, dir |-> d, table |-> t, text |-> text,
     bytes |-> n]

\* Bug: the error of cfg.Dir.Delete() is dropped.
DeleteResult_ErrorIgnored(ok) == 0

\* What pull returns after the call of cfg.Dir.Delete().
DeleteResult(ok) == IF ok THEN 0 ELSE 1

----------------------------------------------------------------------------
(* PullCommand: a top-level invocation with a fresh seen map. *)
\* Bug: the seen map outlives the invocation instead of being made anew.
PullCommand_SharedSeen ==
    /\ \/ pc = "idle"
       \/ pc = "done" /\ result = <<0>> /\ run = "first"
    /\ run' = IF pc = "idle" THEN "first" ELSE "second"
    /\ pc' = "running"
    /\ stack' = <<Frame(Root)>>
    /\ visits' = [d \in Dirs |-> IF d = Root THEN 1 ELSE 0]
    /\ ops' = <<>>
    /\ populated' = <<>>
    /\ result' = <<>>
    /\ ret' = <<>>
    /\ failed' = FALSE
    /\ err' = <<>>
    /\ UNCHANGED <<entries, exists, files, live, mode, temp, dropTried, seen>>
    /\ unread' = {}

PullCommand ==
    /\ \/ pc = "idle"
       \/ pc = "done" /\ result = <<0>> /\ run = "first"
    /\ run' = IF pc = "idle" THEN "first" ELSE "second"
    /\ pc' = "running"
    /\ seen' = {}
    /\ stack' = <<Frame(Root)>>
    /\ visits' = [d \in Dirs |-> IF d = Root THEN 1 ELSE 0]
    /\ ops' = <<>>
    /\ populated' = <<>>
    /\ result' = <<>>
    /\ ret' = <<>>
    /\ failed' = FALSE
    /\ err' = <<>>
    /\ UNCHANGED <<entries, exists, files, live, mode, temp, dropTried>>
    /\ unread' = {}

----------------------------------------------------------------------------
(* pull() on a leaf directory. *)

AtLeaf(p) == pc = "running" /\ stack # <<>> /\ Top.pc = p /\ IsLeaf(Top.dir)

\* to == nil: the schema is gone, the directory goes too.
DeleteDirectory ==
    /\ AtLeaf("enter")
    /\ ~live[SchemaOf(Top.dir)].present
    /\ \E ok \in BOOLEAN :
          IF ok
          THEN /\ exists' = exists \ {Top.dir}
               /\ files' = [files EXCEPT ![Top.dir] = [t \in Tables |-> NoFile]]
               /\ ops' = Append(ops, Mutation("rmdir", None, Top.dir, None, NoFile, 0))
               /\ Return(DeleteResult(ok))
               /\ NoError
          ELSE /\ Fail(DeleteResult(ok))
               /\ UNCHANGED <<exists, files, ops>>
    /\ UNCHANGED <<entries, live, mode, seen, run, temp, dropTried, visits,
                   populated>>
    /\ UNCHANGED unread

\* Bug: the error of PopulateTemporarySchema is reported but pull goes on to
\* the diff, against a temporary schema that holds nothing.
PopulateTemporarySchema_ErrorIgnored ==
    /\ AtLeaf("enter")
    /\ live[SchemaOf(Top.dir)].present
    /\ \E ok \in BOOLEAN :
          /\ temp' = IF ok THEN SchemaWith(LoadFiles(Top.dir)) ELSE temp
          /\ dropTried' = FALSE
          /\ stack' = SetTop([Top EXCEPT
                 !.pc = "apply",
                 !.diff = NewSchemaDiff(
                             IF ok THEN LoadFiles(Top.dir) ELSE NoTables,
                             live[SchemaOf(Top.dir)].tables),
                 !.k = 1])
          /\ failed' = (failed \/ ~ok)
          /\ UNCHANGED <<ret, pc, result, err>>
    /\ UNCHANGED <<entries, exists, files, live, mode, seen, run, visits, ops,
                   populated>>
    /\ UNCHANGED unread

PopulateTemporarySchema ==
    /\ AtLeaf("enter")
    /\ live[SchemaOf(Top.dir)].present
    /\ \E ok \in BOOLEAN :
          IF ok
          THEN /\ temp' = SchemaWith(LoadFiles(Top.dir))
               /\ dropTried' = FALSE
               /\ stack' = SetTop([Top EXCEPT
                      !.pc = "apply",
                      !.diff = NewSchemaDiff(LoadFiles(Top.dir),
                                             live[SchemaOf(Top.dir)].tables),
                      !.k = 1])
               /\ UNCHANGED <<ret, pc, result>>
               /\ NoError
          ELSE /\ Fail(1)
               /\ UNCHANGED <<temp, dropTried>>
    /\ UNCHANGED <<entries, exists, files, live, mode, seen, run, visits, ops,
                   populated>>
    /\ UNCHANGED unread

AtEntry(kind) ==
    /\ AtLeaf("apply")
    /\ Top.k <= Len(Top.diff)
    /\ Top.diff[Top.k].kind = kind

\* Bug: the statement is generated from the temporary ("from") schema.
Contents_FromTemporary(d, table) == ShowCreateTable(temp.tables, table)

\* The text written for a created or altered table.
Contents(d, table) == ShowCreateTable(live[SchemaOf(d)].tables, table)

\* The body shared by case CreateTable and case AlterTable: write <table>.sql.
WriteTable ==
    /\ LET d == Top.dir
           table == Top.diff[Top.k].table
           kind == Top.diff[Top.k].kind
       IN \E shown \in BOOLEAN, ok \in BOOLEAN :
             IF ~shown
             THEN Panic("SHOW CREATE TABLE failed") /\ UNCHANGED <<files, ops>>
             ELSE IF ok
             THEN /\ files' = [files EXCEPT ![d][table] = Contents(d, table)]
                  /\ ops' = Append(ops, Mutation("write", kind, d, table,
                                Contents(d, table),
                                WrittenLength(Contents(d, table))))
                  /\ stack' = SetTop([Top EXCEPT !.k = @ + 1])
                  /\ UNCHANGED <<ret, pc, result>>
                  /\ NoError
             ELSE /\ Fail(1)
                  /\ UNCHANGED <<files, ops>>
    /\ UNCHANGED <<entries, exists, live, mode, seen, run, temp, dropTried,
                   visits, populated>>
    /\ UNCHANGED unread

ApplyCreate ==
    /\ AtEntry("Create")
    /\ WriteTable

ApplyAlter ==
    /\ AtEntry("Alter")
    /\ WriteTable

\* Bug: a failed delete is reported and the loop goes on to the next entry.
ApplyDrop_FailureSkipped ==
    /\ AtEntry("Drop")
    /\ LET d == Top.dir
           table == Top.diff[Top.k].table
       IN \E ok \in BOOLEAN :
             /\ files' = IF ok THEN [files EXCEPT ![d][table] = NoFile]
                               ELSE files
             /\ ops' = IF ok THEN Append(ops, Mutation("delete", "Drop", d,
                                                       table, NoFile, 0))
                             ELSE ops
             /\ stack' = SetTop([Top EXCEPT !.k = @ + 1])
             /\ failed' = (failed \/ ~ok)
             /\ UNCHANGED <<ret, pc, result, err>>
    /\ UNCHANGED <<entries, exists, live, mode, seen, run, temp, dropTried,
                   visits, populated>>
    /\ UNCHANGED unread

\* Bug: the delete removes every table file of the directory.
ApplyDrop_AllFiles ==
    /\ AtEntry("Drop")
    /\ LET d == Top.dir
           table == Top.diff[Top.k].table
       IN \E ok \in BOOLEAN :
             IF ok
             THEN /\ files' = [files EXCEPT ![d] = [t \in Tables |-> NoFile]]
                  /\ ops' = Append(ops, Mutation("delete", "Drop", d, table,
                                NoFile, 0))
                  /\ stack' = SetTop([Top EXCEPT !.k = @ + 1])
                  /\ UNCHANGED <<ret, pc, result>>
                  /\ NoError
             ELSE /\ Fail(1)
                  /\ UNCHANGED <<files, ops>>
    /\ UNCHANGED <<entries, exists, live, mode, seen, run, temp, dropTried,
                   visits, populated>>
    /\ UNCHANGED unread

ApplyDrop ==
    /\ AtEntry("Drop")
    /\ LET d == Top.dir
           table == Top.diff[Top.k].table
       IN \E ok \in BOOLEAN :
             IF ok
             THEN /\ files' = [files EXCEPT ![d][table] = NoFile]
                  /\ ops' = Append(ops, Mutation("delete", "Drop", d, table,
                                NoFile, 0))
                  /\ stack' = SetTop([Top EXCEPT !.k = @ + 1])
                  /\ UNCHANGED <<ret, pc, result>>
                  /\ NoError
             ELSE /\ Fail(1)
                  /\ UNCHANGED <<files, ops>>
    /\ UNCHANGED <<entries, exists, live, mode, seen, run, temp, dropTried,
                   visits, populated>>
    /\ UNCHANGED unread

\* Bug: a rename is skipped and the loop goes on.
ApplyRename_Skipped ==
    /\ AtEntry("Rename")
    /\ stack' = SetTop([Top EXCEPT !.k = @ + 1])
    /\ UNCHANGED <<entries, exists, files, live, mode, seen, ret, pc, result,
                   run, temp, dropTried, visits, ops, populated, failed, err>>
    /\ UNCHANGED unread

ApplyRename ==
    /\ AtEntry("Rename")
    /\ Panic("Table renames not yet supported!")
    /\ UNCHANGED <<entries, exists, files, live, mode, seen, run, temp,
                   dropTried, visits, ops, populated>>
    /\ UNCHANGED unread

ApplyUnsupported ==
    /\ AtLeaf("apply")
    /\ Top.k <= Len(Top.diff)
    /\ Top.diff[Top.k].kind \notin {"Create", "Drop", "Alter", "Rename"}
    /\ Panic("Unsupported diff type")
    /\ UNCHANGED <<entries, exists, files, live, mode, seen, run, temp,
                   dropTried, visits, ops, populated>>
    /\ UNCHANGED unread

\* Bug: the error of DropTemporarySchema is dropped.
DropResult_ErrorIgnored(ok) == 0

\* What pull returns after the call of DropTemporarySchema.
DropResult(ok) == IF ok THEN 0 ELSE 1

DropTemporarySchema ==
    /\ AtLeaf("apply")
    /\ Top.k > Len(Top.diff)
    /\ \E ok \in BOOLEAN :
          /\ temp' = IF ok THEN NoSchema ELSE temp
          /\ Return(DropResult(ok))
          /\ failed' = (failed \/ ~ok)
          /\ UNCHANGED err
    /\ dropTried' = TRUE
    /\ UNCHANGED <<entries, exists, files, live, mode, seen, run, visits, ops,
                   populated>>
    /\ UNCHANGED unread

----------------------------------------------------------------------------
(* pull() on an internal directory. *)

AtInternal(p) == pc = "running" /\ stack # <<>> /\ Top.pc = p /\ ~IsLeaf(Top.dir)

\* t.Schemas(): the names of the schemas of the instance.
LiveSchemaSeq == SelectSeq(SchemaSeq, LAMBDA s : live[s].present)

\* seenSchema: skf.Values["schema"] of every subdirectory for which
\* subdir.SkeemaFile(cfg) returned no error and the file has the field;
\* noSchema holds the subdirectories for which it did not.
SeenSchema(subdirs, noSchema) ==
    {SchemaOf(subdirs[i]) :
        i \in {i \in 1..Len(subdirs) : subdirs[i] \notin noSchema}}

\* The schemas of the instance that are not in seenSchema.
MissingSchemas(subdirs, noSchema) ==
    SelectSeq(LiveSchemaSeq,
              LAMBDA s : s \notin SeenSchema(subdirs, noSchema))

\* Lines 114-133: list the subdirectories and, at an instance directory with
\* leaf subdirectories, read the option file of each; any of these reads may
\* fail or find no "schema" field, which pull passes over in silence.
ListSubdirs ==
    /\ AtInternal("enter")
    /\ \E ok \in BOOLEAN :
          IF ok
          THEN \E noSchema \in
                   IF IsInstanceWithLeafSubdirs(Top.dir, Subdirs(Top.dir))
                   THEN SUBSET Range(Subdirs(Top.dir))
                   ELSE {{}} :
                  /\ stack' = SetTop([Top EXCEPT
                         !.pc = "discover",
                         !.subdirs = Subdirs(Top.dir),
                         !.missing =
                             IF IsInstanceWithLeafSubdirs(Top.dir,
                                                          Subdirs(Top.dir))
                             THEN MissingSchemas(Subdirs(Top.dir), noSchema)
                             ELSE <<>>,
                         !.j = 1])
                  /\ unread' = unread \cup noSchema
                  /\ UNCHANGED <<ret, pc, result>>
                  /\ NoError
          ELSE Fail(1) /\ UNCHANGED unread
    /\ UNCHANGED <<entries, exists, files, live, mode, seen, run, temp,
                   dropTried, visits, ops, populated>>

\* The files of the subdirectory after PopulateSchemaDir wrote one file per
\* table of the schema; a file it does not write is as it was (absent, in a
\* subdirectory it has just created).
SchemaFiles(s) ==
    [t \in Tables |-> IF live[s].tables[t] > 0
                      THEN ShowCreateTable(live[s].tables, t)
                      ELSE files[DirOfSchema(s)][t]]

\* The entries of the directories once d is a subdirectory of parent.
WithSubdir(parent, d) ==
    IF d \in Range(entries[parent])
    THEN entries
    ELSE [entries EXCEPT ![parent] = Append(@, d)]

\* Bug: a non-zero result of PopulateSchemaDir is noted and the loop goes on
\* with the next schema.
PopulateSchemaDir_FailureIgnored ==
    /\ AtInternal("discover")
    /\ Top.j <= Len(Top.missing)
    /\ LET s == Top.missing[Top.j]
       IN /\ populated' = Append(populated, s)
          /\ \E r \in 0..MaxRet :
                /\ IF r = 0
                   THEN /\ exists' = exists \cup {DirOfSchema(s)}
                        /\ entries' = WithSubdir(Top.dir, DirOfSchema(s))
                        /\ files' = [files EXCEPT
                               ![DirOfSchema(s)] = SchemaFiles(s)]
                   ELSE UNCHANGED <<exists, entries, files>>
                /\ failed' = (failed \/ r # 0)
                /\ stack' = SetTop([Top EXCEPT !.j = @ + 1])
                /\ UNCHANGED <<ret, pc, result, err>>
    /\ UNCHANGED <<live, mode, seen, run, temp, dropTried, visits, ops>>
    /\ UNCHANGED unread

\* ret := PopulateSchemaDir(schema, t.Instance, cfg.Dir, true)
\* A call that fails may have created the subdirectory before it failed.  The
\* schema may be one whose subdirectory exists, its option file unread.
PopulateSchemaDir ==
    /\ AtInternal("discover")
    /\ Top.j <= Len(Top.missing)
    /\ LET s == Top.missing[Top.j]
       IN /\ populated' = Append(populated, s)
          /\ \E r \in 0..MaxRet :
                IF r = 0
                THEN /\ exists' = exists \cup {DirOfSchema(s)}
                     /\ entries' = WithSubdir(Top.dir, DirOfSchema(s))
                     /\ files' = [files EXCEPT ![DirOfSchema(s)] = SchemaFiles(s)]
                     /\ stack' = SetTop([Top EXCEPT !.j = @ + 1])
                     /\ UNCHANGED <<ret, pc, result>>
                     /\ NoError
                ELSE /\ Fail(r)
                     /\ \E made \in BOOLEAN :
                           IF made
                           THEN /\ exists' = exists \cup {DirOfSchema(s)}
                                /\ entries' =
                                      WithSubdir(Top.dir, DirOfSchema(s))
                           ELSE UNCHANGED <<exists, entries>>
                     /\ UNCHANGED files
    /\ UNCHANGED <<live, mode, seen, run, temp, dropTried, visits, ops>>
    /\ UNCHANGED unread

\* Bug: the directory is not recorded.
MarkSeen_Forgotten(path) == seen

\* seen[cfg.Dir.Path] = true
MarkSeen(path) == seen \cup {path}

\* Bug: the subdirectories are listed again after the discovery.
BeginRecursion_Relisted ==
    /\ AtInternal("discover")
    /\ Top.j > Len(Top.missing)
    /\ seen' = MarkSeen(Top.dir)
    /\ stack' = SetTop([Top EXCEPT !.pc = "recurse", !.n = 1,
                                   !.subdirs = Subdirs(Top.dir)])
    /\ UNCHANGED <<entries, exists, files, live, mode, ret, pc, result, run,
                   temp, dropTried, visits, ops, populated>>
    /\ NoError
    /\ UNCHANGED unread

BeginRecursion ==
    /\ AtInternal("discover")
    /\ Top.j > Len(Top.missing)
    /\ seen' = MarkSeen(Top.dir)
    /\ stack' = SetTop([Top EXCEPT !.pc = "recurse", !.n = 1])
    /\ UNCHANGED <<entries, exists, files, live, mode, ret, pc, result, run,
                   temp, dropTried, visits, ops, populated>>
    /\ NoError
    /\ UNCHANGED unread

\* seen[subdir.Path]
AlreadySeen(path) == path \in seen

RecurseInto ==
    /\ AtInternal("recurse")
    /\ Top.n <= Len(Top.subdirs)
    /\ ~AlreadySeen(Top.subdirs[Top.n])
    /\ Len(stack) < MaxDepth
    /\ stack' = Append(SetTop([Top EXCEPT !.pc = "wait"]),
                       Frame(Top.subdirs[Top.n]))
    /\ visits' = [visits EXCEPT ![Top.subdirs[Top.n]] = @ + 1]
    /\ UNCHANGED <<entries, exists, files, live, mode, seen, ret, pc, result,
                   run, temp, dropTried, ops, populated>>
    /\ NoError
    /\ UNCHANGED unread

SkipSeen ==
    /\ AtInternal("recurse")
    /\ Top.n <= Len(Top.subdirs)
    /\ AlreadySeen(Top.subdirs[Top.n])
    /\ stack' = SetTop([Top EXCEPT !.n = @ + 1])
    /\ UNCHANGED <<entries, exists, files, live, mode, seen, ret, pc, result,
                   run, temp, dropTried, visits, ops, populated>>
    /\ NoError
    /\ UNCHANGED unread

\* Bug: the loop leaves on a non-zero result but pull reports success.
Propagated_Swallowed(r) == 0

\* Bug: every failure of a recursive call is reported as 1.
Propagated_AsOne(r) == 1

\* The value pull hands up when a recursive call returned r # 0.
Propagated(r) == r

\* ret := pull(...); if ret != 0 { return ret }
AfterRecursion ==
    /\ AtInternal("wait")
    /\ ret # <<>>
    /\ IF ret[1] # 0
       THEN Return(Propagated(ret[1]))
       ELSE /\ stack' = SetTop([Top EXCEPT !.pc = "recurse", !.n = @ + 1])
            /\ ret' = <<>>
            /\ UNCHANGED <<pc, result>>
    /\ UNCHANGED <<entries, exists, files, live, mode, seen, run, temp,
                   dropTried, visits, ops, populated>>
    /\ NoError
    /\ UNCHANGED unread

\* The loop over subdirs is over: return 0.
ReturnZero ==
    /\ AtInternal("recurse")
    /\ Top.n > Len(Top.subdirs)
    /\ Return(0)
    /\ UNCHANGED <<entries, exists, files, live, mode, seen, run, temp,
                   dropTried, visits, ops, populated>>
    /\ NoError
    /\ UNCHANGED unread

----------------------------------------------------------------------------
(* Initial states: the tree on disk and the schemas of the instance. *)

NoEntries == [d \in Dirs |-> <<>>]

\* Plain tree; a tree whose group directory holds links to the root, to
\* itself and to the instance directory; a tree with a second entry that
\* resolves to leaf /i/a.
Trees ==
    { [NoEntries EXCEPT !["/"] = <<"/i">>, !["/i"] = <<"/i/a", "/i/b">>],
      [NoEntries EXCEPT !["/"] = <<"/g", "/i">>,
                        !["/g"] = <<"/", "/g", "/i">>,
                        !["/i"] = <<"/i/a", "/i/b">>],
      [NoEntries EXCEPT !["/"] = <<"/i">>,
                        !["/i"] = <<"/i/a", "/i/b", "/i/a">>] }

TableSets == [Tables -> 0..MaxCols]

\* Files a user wrote by hand for tables of one column.
HandFiles == [Tables -> {0, 1}]
FilesOf(h) == [t \in Tables |-> IF h[t] = 0 THEN NoFile ELSE HandWritten(t, h[t])]

OneTable == [t \in Tables |-> IF t = "t1" THEN 1 ELSE 0]

Init ==
    /\ entries \in Trees
    /\ exists = {"/", "/g", "/i", "/i/a", "/i/b"}
    /\ \E h \in HandFiles :
          files = [d \in LeafDirs |->
                      CASE d = "/i/a" -> FilesOf(h)
                        [] d = "/i/b" -> FilesOf(OneTable)
                        [] OTHER -> [t \in Tables |-> NoFile]]
    /\ \E la \in {NoSchema} \cup {SchemaWith(ts) : ts \in TableSets},
          lb \in {NoSchema} \cup
                 {SchemaWith([OneTable EXCEPT !["t1"] = c]) : c \in 1..MaxCols},
          lc \in {NoSchema, SchemaWith(OneTable)},
          ld \in {NoSchema, SchemaWith(OneTable)} :
          live = [s \in Schemas |->
                     CASE s = "a" -> la [] s = "b" -> lb
                       [] s = "c" -> lc [] s = "d" -> ld]
    /\ mode \in {"plain", "renames", "extended"}
    /\ seen = {}
    /\ stack = <<>>
    /\ ret = <<>>
    /\ pc = "idle"
    /\ result = <<>>
    /\ run = "first"
    /\ temp = NoSchema
    /\ dropTried = FALSE
    /\ visits = [d \in Dirs |-> 0]
    /\ ops = <<>>
    /\ populated = <<>>
    /\ failed = FALSE
    /\ unread = {}
    /\ err = <<>>

Next ==
    \/ PullCommand
    \/ DeleteDirectory
    \/ PopulateTemporarySchema
    \/ ApplyCreate
    \/ ApplyAlter
    \/ ApplyDrop
    \/ ApplyRename
    \/ ApplyUnsupported
    \/ DropTemporarySchema
    \/ ListSubdirs
    \/ PopulateSchemaDir
    \/ BeginRecursion
    \/ RecurseInto
    \/ SkipSeen
    \/ AfterRecursion
    \/ ReturnZero

Spec == Init /\ [][Next]_vars

----------------------------------------------------------------------------
(* Vocabulary of the properties. *)

NoDuplicates(q) == \A i, j \in 1..Len(q) : i # j => q[i] # q[j]

\* This step ends the call on top of the stack with value v.
Returns(v) ==
    /\ stack' = SubSeq(stack, 1, Len(stack) - 1)
    /\ IF Len(stack) = 1
       THEN pc' = "done" /\ result' = <<v>>
       ELSE pc' = "running" /\ ret' = <<v>>

\* The parent directory in the tree, and the directories from d up to the root.
ParentOf(d) == CASE d = "/" -> "/" [] d \in {"/g", "/i"} -> "/" [] OTHER -> "/i"
Above(d) == {d, ParentOf(d), ParentOf(ParentOf(d))}

\* The directories some entry below them resolves to: targets of upward links.
LinkedAncestors ==
    {a \in Dirs : \E d \in Dirs : \E i \in 1..Len(entries[d]) :
                     entries[d][i] = a /\ a \in Above(d)}

\* The walk is looking at an entry that resolves to a directory above it.
AtUpwardLink(a) ==
    /\ stack # <<>>
    /\ Top.pc = "recurse"
    /\ Top.n <= Len(Top.subdirs)
    /\ Top.subdirs[Top.n] = a
    /\ a \in Above(Top.dir)

\* Every file a diff entry wrote or deleted is as the last such entry left it.
MutationsInPlace ==
    \A i \in 1..Len(ops) :
        (/\ ops[i].op \in {"write", "delete"}
         /\ \A j \in (i+1)..Len(ops) :
               /\ ops[j].dir # ops[i].dir \/ ops[j].table # ops[i].table
               /\ ~(ops[j].op = "rmdir" /\ ops[j].dir = ops[i].dir))
        => files[ops[i].dir][ops[i].table] = ops[i].text

----------------------------------------------------------------------------
(* C1 *)

\* C1: once a leaf reconciliation that populated the temporary schema is over
\* (pull returned, or the run ended), DropTemporarySchema has been called for
\* it, whatever the exit path.
C1_TemporarySchemaReleased ==
    (stack = <<>> \/ Top.pc # "apply") => (temp.present => dropTried)

----------------------------------------------------------------------------
(* C2 *)

LeafGone == AtLeaf("enter") /\ ~live[SchemaOf(Top.dir)].present

\* C2: pull on a leaf whose schema is not on the instance deletes the directory
\* and returns 0, or returns non-zero when the deletion fails; it populates no
\* temporary schema, computes no diff and touches no single table file.
C2_MissingSchemaDeletesDirectory ==
    [][LeafGone =>
          /\ UNCHANGED <<temp, dropTried, populated, entries>>
          /\ \/ /\ Returns(0)
                /\ Top.dir \notin exists'
                /\ ops' = Append(ops,
                       Mutation("rmdir", None, Top.dir, None, NoFile, 0))
             \/ /\ \E v \in 1..MaxRet : Returns(v)
                /\ UNCHANGED <<exists, files, ops>>]_vars

C2_Witness ==
    /\ ops # <<>>
    /\ ops[Len(ops)].op = "rmdir"
    /\ ops[Len(ops)].dir \notin exists
    /\ ret = <<0>>

----------------------------------------------------------------------------
(* C3 *)

\* The initial states whose tree holds a link that resolves to an ancestor.
LinkedInit == Init /\ LinkedAncestors # {}

\* pull is a sequential program: while a step is possible, one is taken.
FairSpec == LinkedInit /\ [][Next]_vars /\ WF_vars(Next)

C3_NoReentry ==
    /\ \A i, j \in 1..Len(stack) : i # j => stack[i].dir # stack[j].dir
    /\ \A a \in LinkedAncestors :
          /\ visits[a] <= 1
          /\ AtUpwardLink(a) => visits[a] = 1 /\ a \in seen
          /\ (pc = "done" /\ result = <<0>>) => visits[a] = 1

\* C3: the walk of a tree with a link to an ancestor ends, by a return or a
\* panic, and no directory is entered while a call on it is active.  The
\* ancestor is never processed twice; it has been processed exactly once
\* whenever the walk looks at the link, and whenever the run returns 0.
C3_CycleSafety ==
    /\ []C3_NoReentry
    /\ (pc = "running") ~> (pc \in {"done", "panicked"})

C3_Witness ==
    /\ pc = "done"
    /\ result = <<0>>
    /\ LinkedAncestors = {"/", "/g"}
    /\ visits["/g"] = 1

----------------------------------------------------------------------------
(* C4 *)

\* C4: in one run every directory, leaf or internal, is reconciled at most once.
C4_EachDirectoryAtMostOnce == \A d \in Dirs : visits[d] <= 1

----------------------------------------------------------------------------
(* C5 *)

ReturnedNonZero == pc = "running" /\ ret # <<>> /\ ret[1] # 0

\* C5: when a recursive call has returned non-zero the caller returns the same
\* value in its next step, and so on up to the top; a failed population ends
\* the call with a non-zero value at once.  Meanwhile no directory is entered,
\* no schema populated and no file changes; all that may be left behind is
\* the subdirectory the failed population had created.
C5_FailFast ==
    [][/\ ReturnedNonZero =>
             /\ Returns(ret[1])
             /\ UNCHANGED <<visits, populated, ops, files, exists, entries,
                            temp, seen>>
       /\ (Len(populated') > Len(populated) /\ failed') =>
             /\ \E v \in 1..MaxRet : Returns(v)
             /\ UNCHANGED <<visits, ops, files, temp, seen>>]_vars

C5_Witness ==
    /\ ReturnedNonZero
    /\ Len(stack) = 1
    /\ visits["/i/a"] = 1
    /\ visits["/i/b"] = 0

----------------------------------------------------------------------------
(* C6 *)

FatalEntry ==
    /\ AtLeaf("apply")
    /\ Top.k <= Len(Top.diff)
    /\ Top.diff[Top.k].kind \notin {"Create", "Drop", "Alter"}

\* C6: a Rename entry, or one of an unknown kind, ends the run with a non-zero
\* status; that step changes no file, and nothing at all happens afterwards.
C6_RenameIsFatal ==
    [][/\ FatalEntry =>
             /\ pc' = "panicked"
             /\ stack' = <<>>
             /\ result' # <<>> /\ result'[1] # 0
             /\ UNCHANGED <<files, exists, entries, ops, visits, populated>>
       /\ pc = "panicked" => FALSE]_vars

C6_Witness ==
    /\ pc = "panicked"
    /\ err = <<"Table renames not yet supported!">>
    /\ result = <<2>>

----------------------------------------------------------------------------
(* C7 *)

\* C7: after DropTemporarySchema failed, the value on its way up, and the
\* result of the run, is non-zero, and the files written and deleted by the
\* diff entries are still as the entries left them.
C7_CleanupFailure ==
    (dropTried /\ temp.present) =>
        /\ \/ pc = "done" /\ result # <<0>>
           \/ ReturnedNonZero
        /\ MutationsInPlace

C7_Witness ==
    /\ dropTried /\ temp.present
    /\ pc = "done" /\ result = <<1>>
    /\ ops # <<>>
    /\ ops[Len(ops)].op = "write"

----------------------------------------------------------------------------
(* C8 *)

\* C8: a second run, started after a first run that returned 0 and with the
\* instance unchanged, writes and deletes no file, deletes no directory,
\* populates no schema directory and never panics: no step of it changes a
\* file or a directory, whoever writes it.  It returns 0 unless an external
\* call reports an error.
C8_SecondRunIdle ==
    /\ [](run = "second" =>
            /\ ops = <<>>
            /\ populated = <<>>
            /\ pc # "panicked"
            /\ (pc = "done" /\ ~failed) => result = <<0>>)
    /\ [][run = "second" => UNCHANGED <<files, exists, entries>>]_vars

----------------------------------------------------------------------------
(* C9 *)

\* The schemas the listed subdirectories declare: the "schema" values of
\* their option files.
Declared(subdirs) ==
    {s \in Schemas : \E i \in 1..Len(subdirs) :
                        /\ IsLeaf(subdirs[i])
                        /\ SchemaOf(subdirs[i]) = s}

\* The schemas of the instance that no listed subdirectory declares.
Undeclared(subdirs) == {s \in Schemas : live[s].present} \ Declared(subdirs)

C9_Discovered ==
    \A k \in 1..Len(stack) :
        (stack[k].dir \in InstanceDirs /\ stack[k].pc # "enter") =>
            /\ Range(populated) \subseteq Undeclared(stack[k].subdirs)
            /\ NoDuplicates(populated)
            /\ stack[k].pc \in {"recurse", "wait"} =>
                  Range(populated) = Undeclared(stack[k].subdirs)

C9_PopulationStep ==
    Len(populated') > Len(populated) =>
        LET s == populated'[Len(populated')]
        IN /\ populated' = Append(populated, s)
           /\ s \in Undeclared(Top.subdirs) \ Range(populated)
           /\ \A d \in LeafDirs \ {DirOfSchema(s)} :
                 files'[d] = files[d] /\ (d \in exists' <=> d \in exists)
           /\ DirOfSchema(s) \notin Range(Top.subdirs)

\* C9: discovery populates a subdirectory for the live schemas that no
\* listed subdirectory declares, each once and no other, and leaves the
\* directories of the declared schemas alone; a pass that runs to its end has
\* populated every one of them.
C9_DiscoveryPopulatesMissing == []C9_Discovered /\ [][C9_PopulationStep]_vars

----------------------------------------------------------------------------
(* C10 *)

\* C10: every write of a Create or Alter entry puts into <table>.sql the
\* statement generated from the live schema, whatever the file held before,
\* and reports the length of that text.
C10_WritesCanonicalText ==
    /\ \A i \in 1..Len(ops) :
          ops[i].op = "write" =>
             /\ ops[i].kind \in {"Create", "Alter"}
             /\ ops[i].text =
                   ShowCreateTable(live[SchemaOf(ops[i].dir)].tables,
                                   ops[i].table)
             /\ ops[i].bytes = Len(ops[i].text)
    /\ MutationsInPlace

C10_Witness ==
    \E i \in 1..Len(ops) :
        /\ ops[i].op = "write"
        /\ ops[i].kind = "Alter"
        /\ files[ops[i].dir][ops[i].table] = ops[i].text
        /\ Parse(ops[i].text) = 2

----------------------------------------------------------------------------
(* C11 *)

\* The loop is at a Create, Drop or Alter entry of the leaf on top.
AtFileEntry ==
    /\ AtLeaf("apply")
    /\ Top.k <= Len(Top.diff)
    /\ Top.diff[Top.k].kind \in {"Create", "Drop", "Alter"}

\* C11: the step that applies one Create, Drop or Alter entry changes at most
\* the file <table>.sql of the entry's table in the leaf directory: a Drop
\* that is applied removes it, a Create or Alter that is applied writes it;
\* every other file of that directory, every file of every other directory
\* and the directories themselves are as before.
C11_OnlyTheTableFile ==
    [][AtFileEntry =>
          LET d == Top.dir
              e == Top.diff[Top.k]
          IN /\ \A x \in LeafDirs : \A t \in Tables :
                   (x # d \/ t # e.table) => files'[x][t] = files[x][t]
             /\ UNCHANGED <<exists, entries>>
             /\ Len(ops') > Len(ops) =>
                   IF e.kind = "Drop"
                   THEN files'[d][e.table] = NoFile
                   ELSE files'[d][e.table] # NoFile
             /\ Len(ops') = Len(ops) => files' = files]_vars

\* A Drop was applied in a directory that still holds another table's file.
C11_Witness ==
    \E i \in 1..Len(ops) :
        /\ ops[i].op = "delete"
        /\ files[ops[i].dir][ops[i].table] = NoFile
        /\ \E t \in Tables :
              t # ops[i].table /\ files[ops[i].dir][t] # NoFile

----------------------------------------------------------------------------
(* C12 *)

\* This step is a database call of the leaf on top that fails: populating the
\* temporary schema, generating the text of a Create or Alter entry, or
\* dropping the temporary schema.
DatabaseError ==
    \/ AtLeaf("enter") /\ live[SchemaOf(Top.dir)].present /\ failed'
    \/ /\ AtLeaf("apply")
       /\ Top.k <= Len(Top.diff)
       /\ Top.diff[Top.k].kind \in {"Create", "Alter"}
       /\ err' = <<"SHOW CREATE TABLE failed">>
    \/ AtLeaf("apply") /\ Top.k > Len(Top.diff) /\ failed'

\* C12: a database error during a leaf reconciliation, a failure to generate
\* the text of a Create or Alter entry included, makes the call return a
\* non-zero value without writing a file, and every enclosing call returns
\* that value in turn.
C12_DatabaseErrorsReturned ==
    [][/\ DatabaseError =>
             /\ \E v \in 1..MaxRet : Returns(v)
             /\ UNCHANGED <<files, ops>>
       /\ ReturnedNonZero =>
             /\ Returns(ret[1])
             /\ UNCHANGED <<files, ops>>]_vars

----------------------------------------------------------------------------
(* C13 *)

\* This step is a failing PopulateTemporarySchema of the leaf on top.
PopulateTemporaryFailed ==
    AtLeaf("enter") /\ live[SchemaOf(Top.dir)].present /\ failed'

\* C13: when populating the temporary schema fails at a leaf, that step
\* returns non-zero from the call, which never reaches the diff: no file is
\* written or deleted, the directory stays, the temporary schema is as it was,
\* and nothing of this changes in the rest of the run either.
C13_PopulateFailureLeavesLeaf ==
    [][/\ PopulateTemporaryFailed =>
             /\ \E v \in 1..MaxRet : Returns(v)
             /\ UNCHANGED <<files, exists, entries, ops, temp, dropTried>>
       /\ failed => UNCHANGED <<files, exists, entries, ops, temp>>]_vars

\* The first leaf's call has just returned 1, with no mutation made, no
\* temporary schema behind it and its live schema present.
C13_Witness ==
    /\ ReturnedNonZero
    /\ failed
    /\ ops = <<>>
    /\ ~temp.present
    /\ ~dropTried
    /\ live["a"].present
    /\ visits["/i/a"] = 1
    /\ visits["/i/b"] = 0
    /\ "/i/a" \in exists
    /\ \E t \in Tables : live["a"].tables[t] # 0 /\ files["/i/a"][t] = NoFile

----------------------------------------------------------------------------
(* C14 *)

\* C14: within one run, whenever a leaf is about to populate the temporary
\* schema, no temporary schema populated for an earlier leaf is still there:
\* the populate-to-drop cycles of the leaves do not overlap.
C14_CyclesDoNotOverlap ==
    \A i \in 1..Len(stack) :
        (/\ pc = "running"
         /\ IsLeaf(stack[i].dir)
         /\ stack[i].pc = "enter")
        => ~temp.present

\* The second leaf is about to populate the temporary schema after the first
\* leaf's cycle was completed by a drop.
C14_Witness ==
    /\ AtLeaf("enter")
    /\ Top.dir = "/i/b"
    /\ live["a"].present
    /\ live["b"].present
    /\ visits["/i/a"] = 1
    /\ dropTried
    /\ ~temp.present
    /\ ops # <<>>

----------------------------------------------------------------------------
(* C15 *)

\* The file operation a Create, Drop or Alter entry e stands for in d.
ImageOf(e, d) ==
    [op |-> IF e.kind = "Drop" THEN "delete" ELSE "write",
     kind |-> e.kind, dir |-> d, table |-> e.table]

\* What a recorded file operation did, without the text it carried.
Shape(o) == [op |-> o.op, kind |-> o.kind, dir |-> o.dir, table |-> o.table]

\* The leaf on top holds the sequence the diff engine returned for it, and
\* the operations made for it so far are the images of the entries before
\* position k, one each, in the order of the sequence.
C15_PrefixApplied ==
    AtLeaf("apply") =>
       LET d == Top.dir
           done == Top.k - 1
       IN /\ Top.diff = NewSchemaDiff(temp.tables, live[SchemaOf(d)].tables)
          /\ done <= Len(Top.diff)
          /\ done <= Len(ops)
          /\ \A i \in 1..done :
                Shape(ops[Len(ops) - done + i]) = ImageOf(Top.diff[i], d)

\* A step at an entry either applies it and moves to the next one, or leaves
\* operations and files as they are and ends the call; a failed write or
\* delete ends it by a non-zero return, and nothing is applied after that.
C15_NextOrStop ==
    /\ AtFileEntry =>
          \/ /\ Len(ops') = Len(ops) + 1
             /\ SubSeq(ops', 1, Len(ops)) = ops
             /\ Shape(ops'[Len(ops')]) = ImageOf(Top.diff[Top.k], Top.dir)
             /\ stack' = SetTop([Top EXCEPT !.k = @ + 1])
          \/ /\ UNCHANGED <<ops, files>>
             /\ Len(stack') < Len(stack)
             /\ failed' => \E v \in 1..MaxRet : Returns(v)
    /\ failed => UNCHANGED <<ops, files>>

\* C15: at a leaf the file operations are the images, in the same order, of a
\* prefix of the sequence the diff engine returned: no entry is reordered or
\* skipped, and when a write or delete fails pull returns non-zero with the
\* earlier entries' mutations in place and no later entry applied.
C15_DiffAppliedInOrder ==
    /\ [](C15_PrefixApplied /\ MutationsInPlace)
    /\ [][C15_NextOrStop]_vars

\* The second entry of a leaf's diff failed after the first was applied: the
\* call returned 1 and the first mutation is on disk.
C15_Witness ==
    /\ ReturnedNonZero
    /\ failed
    /\ temp.present
    /\ ~dropTried
    /\ Len(ops) = 1
    /\ ops[1].dir = "/i/a"
    /\ files["/i/a"][ops[1].table] = ops[1].text
    /\ visits["/i/b"] = 0

----------------------------------------------------------------------------
(* C16 *)

\* This step is a call of PopulateSchemaDir that comes back non-zero.
PopulationFailed == Len(populated') > Len(populated) /\ failed'

\* C16: when populating the subdirectory of a newly found schema fails, the
\* step ends the discovery and the call with a non-zero value; the
\* subdirectories populated earlier in the pass stay, with their files; no
\* subdirectory of the instance directory has been or is entered, and no
\* further schema is populated in the rest of the run.
C16_PopulationFailureStopsDiscovery ==
    [][/\ PopulationFailed =>
             /\ \E v \in 1..MaxRet : Returns(v)
             /\ \A i \in 1..Len(populated) :
                   LET d == DirOfSchema(populated[i])
                   IN /\ d \in exists'
                      /\ d \in Range(entries'[Top.dir])
                      /\ files'[d] = SchemaFiles(populated[i])
             /\ \A x \in Range(entries'[Top.dir]) : visits'[x] = 0
       /\ failed => UNCHANGED <<populated, visits, files, exists, entries>>]_vars

\* The second population of a pass failed: the run has ended non-zero, the
\* first new subdirectory is there with its table file, no leaf was entered.
C16_Witness ==
    /\ pc = "done"
    /\ failed
    /\ result # <<0>>
    /\ populated = <<"c", "d">>
    /\ "/i/c" \in exists
    /\ \E t \in Tables : files["/i/c"][t] # NoFile
    /\ \A t \in Tables : files["/i/d"][t] = NoFile
    /\ visits["/i/a"] = 0
    /\ visits["/i/b"] = 0

----------------------------------------------------------------------------
(* C17 *)

\* The call f of an instance directory has completed its discovery pass.
PassDone(f) == f.dir \in InstanceDirs /\ f.pc \in {"recurse", "wait"}

\* C17: discovery is idempotent.  Once a pass at an instance directory has
\* completed, every live schema is declared by a listed subdirectory that
\* exists; and the pass of a second run, the database unchanged, finds no
\* schema to populate and populates none.
C17_DiscoveryIdempotent ==
    /\ \A i \in 1..Len(stack) :
          PassDone(stack[i]) =>
             \A s \in Schemas :
                live[s].present =>
                   /\ DirOfSchema(s) \in exists
                   /\ s \in Declared(Subdirs(stack[i].dir))
    /\ run = "second" =>
          /\ populated = <<>>
          /\ \A i \in 1..Len(stack) :
                PassDone(stack[i]) => stack[i].missing = <<>>

----------------------------------------------------------------------------
(* C18 *)

\* The subdirectories the discovery of this run created: those
\* PopulateSchemaDir was called for, but for the listed ones it was called
\* for because their option file was not read.
NewSubdirs == {DirOfSchema(populated[i]) : i \in 1..Len(populated)} \ unread

\* C18: the list of subdirectories pull recurses into is read before the
\* discovery, so a subdirectory the discovery of this run created is in no
\* call's list, is never entered in this run and has no table file written or
\* deleted by a diff; PopulateSchemaDir is called for it once.
C18_NewSubdirsNotReconciled ==
    /\ NoDuplicates(populated)
    /\ \A d \in NewSubdirs :
          /\ visits[d] = 0
          /\ \A i \in 1..Len(stack) :
                /\ stack[i].dir # d
                /\ d \notin Range(stack[i].subdirs)
          /\ \A i \in 1..Len(ops) : ops[i].dir # d

\* A first run has returned 0: it created a subdirectory, which holds a table
\* file, reconciled an old leaf and never entered the new one.
C18_Witness ==
    /\ pc = "done"
    /\ result = <<0>>
    /\ run = "first"
    /\ populated = <<"c">>
    /\ "/i/c" \in exists
    /\ \E t \in Tables : files["/i/c"][t] # NoFile
    /\ visits["/i/a"] = 1
    /\ visits["/i/c"] = 0
    /\ ops # <<>>

----------------------------------------------------------------------------
(* C19 *)

\* The leaf d was left reconciled: gone with its schema, or holding files
\* that define the tables of its live schema.
LeafSettled(d) ==
    IF live[SchemaOf(d)].present
    THEN d \in exists /\ LoadFiles(d) = live[SchemaOf(d)].tables
    ELSE d \notin exists

\* C19: a top-level pull that returns 0 made no failing call: every leaf it
\* entered was deleted with its schema or had its whole diff applied and the
\* temporary schema dropped, and every population of the discovery returned
\* 0.  A failed listing, population, write, delete or drop makes the result
\* of the run non-zero.
C19_ZeroMeansAllSucceeded ==
    pc = "done" =>
       /\ failed => result # <<0>>
       /\ result = <<0>> =>
             /\ ~failed
             /\ ~temp.present
             /\ \A d \in LeafDirs : visits[d] >= 1 => LeafSettled(d)
             /\ \A i \in 1..Len(populated) :
                   /\ DirOfSchema(populated[i]) \in exists
                   /\ files[DirOfSchema(populated[i])] =
                         SchemaFiles(populated[i])

\* A first run returned 0 after deleting one leaf, writing a table file in
\* the other and populating a new subdirectory.
C19_Witness ==
    /\ pc = "done"
    /\ result = <<0>>
    /\ run = "first"
    /\ populated # <<>>
    /\ \E i, j \in 1..Len(ops) :
          /\ ops[i].op = "rmdir"
          /\ ops[j].op = "write"

----------------------------------------------------------------------------
(* C20 *)

\* Every call below the top of the stack is that of an internal directory
\* waiting in its recursion loop, and its path is in the seen-set; so is the
\* path of an internal directory on top once it walks its subdirectories.
C20_AncestorsSeen ==
    \A i \in 1..Len(stack) :
        /\ i < Len(stack) =>
              /\ ~IsLeaf(stack[i].dir)
              /\ stack[i].pc = "wait"
        /\ (~IsLeaf(stack[i].dir) /\ stack[i].pc \in {"recurse", "wait"}) =>
              stack[i].dir \in seen

\* A top-level invocation starts with an empty seen-set and, from then on,
\* no step of the run takes a path out of it.
C20_GrowsFromEmpty ==
    IF pc # "running" /\ pc' = "running"
    THEN seen' = {}
    ELSE seen \subseteq seen'

\* C20: the seen-set starts empty for each top-level invocation and only
\* grows during the run, and an internal directory's path is put into it
\* before any of its subdirectories is entered: during every recursive call
\* each internal ancestor on the call stack is in the seen-set.
C20_SeenSetDiscipline ==
    /\ []C20_AncestorsSeen
    /\ [][C20_GrowsFromEmpty]_vars

\* In a second run a leaf is entered three levels down, below the internal
\* directories /, /g and /i, all in the seen-set made for this run.
C20_Witness ==
    /\ run = "second"
    /\ Len(stack) = 4
    /\ AtLeaf("enter")
    /\ seen = {"/", "/g", "/i"}

====
